---- MODULE Spec2Model ----
(***************************************************************************)
(* Canonical, length-limited Huffman coding of src/src/huffman.rs:         *)
(* compute_canonical_lens (the shrink-retry tree builder),                 *)
(* compute_encodings, compute_decodings, and the HuffmanEncoder /          *)
(* HuffmanDecoder facades working against a bit stream.                    *)
(*                                                                         *)
(* Tables are indexed by symbol id from 0, as in the source: a Vec of      *)
(* length n is a function with domain 0..n-1.                              *)
(***************************************************************************)
EXTENDS Integers, Sequences, FiniteSets, TLC

\* ------------------------------------------------------------------ bounds
\* Largest alphabet size (symbol_weights.len()) of the builder runs.
MaxSymbols == 5
\* Largest symbol weight of the builder runs.
MaxWeight == 3
\* Largest canonical_lens_max handed to the builder.
MaxLensMax == 3
\* Cap on the shrink exponent of the retry loop (the source loop has none).
MaxShrink == 3
\* Largest alphabet size, weight and canonical_lens_max of the codec runs.
CodecMaxSymbols == 4
CodecMaxWeight == 2
CodecMaxLensMax == 3
\* Largest alphabet size, weight and canonical_lens_max of the runs over
\* active symbols only.
HeavyMaxSymbols == 5
HeavyMaxWeight == 4
HeavyMaxLensMax == 3
\* Number of symbols encoded back to back into one stream.
MaxStream == 2

\* ------------------------------------------------------- program constants
\* u16: the width of a symbol id and of a code; u16::max_value() marks an
\* internal tree node.
U16 == 65536
U16Max == U16 - 1

VARIABLES
    symbol_weights,      \* input: symbol id -> u32 weight
    canonical_lens_max,  \* input: the length limit (u8)
    shrink_factor,       \* loop variable of 'shrink
    pc,                  \* "call" | "shrink" | "encoder" | "decoder" | "panic"
    encoder,             \* HuffmanEncoder {canonical_lens, encodings}
    decoder,             \* HuffmanDecoder {canonical_lens, canonical_lens_max, decodings}
    bits,                \* the bit stream: a sequence of 0/1, oldest first
    rpos,                \* read cursor into bits (bits consumed so far)
    padded,              \* the writer has padded the tail of the stream
    sent,                \* history: symbols handed to encode_to_bits, in order
    puts,                \* history: number of bits each encode_to_bits wrote
    received,            \* history: symbols returned by decode_from_bits
    skips                \* history: cursor advance of each decode_from_bits

vars == <<symbol_weights, canonical_lens_max, shrink_factor, pc, encoder,
          decoder, bits, rpos, padded, sent, puts, received, skips>>

\* ----------------------------------------------------------------- helpers
Max(a, b) == IF a >= b THEN a ELSE b

VecLen(v) == Cardinality(DOMAIN v)

\* vec![x; n]
VecOf(x, n) == [i \in 0 .. n - 1 |-> x]

ActiveSymbols(weights) == {i \in DOMAIN weights : weights[i] # 0}

\* ---------------------------------------------------- compute_canonical_lens
None == <<>>
Some(x) == <<x>>

\* The derived Ord of Node: weight, then symbol, then child1, then child2;
\* for Option, None < Some(_) and Some(a) is compared with Some(b) as a with b.
RECURSIVE NodeCmp(_, _)
RECURSIVE OptionCmp(_, _)
\* NodeCmp with the symbol tie-break reversed: the lower symbol id counts
\* as the greater node.
NodeCmpLowSymbolFirst(a, b) ==
    IF a.weight # b.weight THEN (IF a.weight < b.weight THEN -1 ELSE 1)
    ELSE IF a.symbol # b.symbol THEN (IF a.symbol > b.symbol THEN -1 ELSE 1)
    ELSE LET c == OptionCmp(a.child1, b.child1)
         IN  IF c # 0 THEN c ELSE OptionCmp(a.child2, b.child2)

NodeCmp(a, b) ==
    IF a.weight # b.weight THEN (IF a.weight < b.weight THEN -1 ELSE 1)
    ELSE IF a.symbol # b.symbol THEN (IF a.symbol < b.symbol THEN -1 ELSE 1)
    ELSE LET c == OptionCmp(a.child1, b.child1)
         IN  IF c # 0 THEN c ELSE OptionCmp(a.child2, b.child2)

OptionCmp(x, y) ==
    IF x = None THEN (IF y = None THEN 0 ELSE -1)
    ELSE IF y = None THEN 1
    ELSE NodeCmp(x[1], y[1])

\* BinaryHeap::pop: the greatest node of the heap.
HeapPop(heap) == CHOOSE n \in heap : \A m \in heap : NodeCmp(m, n) <= 0

\* ShrunkWeight that never shrinks.
ShrunkWeightUnshifted(weight, shrink) == Max(weight, 1)

\* weight as i64 / (1 << shrink_factor), at least 1.
ShrunkWeight(weight, shrink) == Max(weight \div (2 ^ shrink), 1)

\* LeafNode without the negation of the weight.
LeafNodeUnnegated(symbol, weight, shrink) ==
    [weight |-> ShrunkWeight(weight, shrink),
     symbol |-> symbol % U16,
     child1 |-> None,
     child2 |-> None]

\* The leaf of one active symbol (lines 73-78): the weight is negated so
\* that the max-heap pops the lightest node first.
LeafNode(symbol, weight, shrink) ==
    [weight |-> 0 - ShrunkWeight(weight, shrink),
     symbol |-> symbol % U16,
     child1 |-> None,
     child2 |-> None]

NodeHeap(weights, shrink) ==
    {LeafNode(i, weights[i], shrink) : i \in ActiveSymbols(weights)}

MergeNodes(min_node1, min_node2) ==
    [weight |-> min_node1.weight + min_node2.weight,
     symbol |-> U16Max,
     child1 |-> Some(min_node1),
     child2 |-> Some(min_node2)]

\* construct huffman tree: pop two, push their parent, until one node is left.
RECURSIVE HuffmanTree(_)
HuffmanTree(heap) ==
    IF Cardinality(heap) <= 1 THEN HeapPop(heap)
    ELSE LET min_node1 == HeapPop(heap)
             heap1 == heap \ {min_node1}
             min_node2 == HeapPop(heap1)
             heap2 == heap1 \ {min_node2}
         IN  HuffmanTree(heap2 \cup {MergeNodes(min_node1, min_node2)})

\* ExtractLens that abandons the attempt one level too late.
RECURSIVE ExtractLensLate(_, _, _)
ExtractLensLate(queue, lens, lens_max) ==
    IF queue = <<>> THEN [shrink |-> FALSE, canonical_lens |-> lens]
    ELSE LET depth == queue[Len(queue)][1]
             node == queue[Len(queue)][2]
             rest == SubSeq(queue, 1, Len(queue) - 1)
         IN  IF node.symbol = U16Max
             THEN IF depth = lens_max + 1
                  THEN [shrink |-> TRUE, canonical_lens |-> lens]
                  ELSE ExtractLensLate(rest \o << <<depth + 1, node.child1[1]>>,
                                                 <<depth + 1, node.child2[1]>> >>,
                                       lens, lens_max)
             ELSE ExtractLensLate(rest, [lens EXCEPT ![node.symbol] = depth], lens_max)

\* ExtractLens that counts the depth of a leaf from one.
RECURSIVE ExtractLensFromOne(_, _, _)
ExtractLensFromOne(queue, lens, lens_max) ==
    IF queue = <<>> THEN [shrink |-> FALSE, canonical_lens |-> lens]
    ELSE LET depth == queue[Len(queue)][1]
             node == queue[Len(queue)][2]
             rest == SubSeq(queue, 1, Len(queue) - 1)
         IN  IF node.symbol = U16Max
             THEN IF depth = lens_max
                  THEN [shrink |-> TRUE, canonical_lens |-> lens]
                  ELSE ExtractLensFromOne(
                           rest \o << <<depth + 1, node.child1[1]>>,
                                      <<depth + 1, node.child2[1]>> >>,
                           lens, lens_max)
             ELSE ExtractLensFromOne(rest, [lens EXCEPT ![node.symbol] = depth + 1],
                                     lens_max)

\* iterate huffman tree: the work list is a stack of <<depth, node>>; an
\* internal node met at depth canonical_lens_max abandons the attempt.
RECURSIVE ExtractLens(_, _, _)
ExtractLens(queue, lens, lens_max) ==
    IF queue = <<>> THEN [shrink |-> FALSE, canonical_lens |-> lens]
    ELSE LET depth == queue[Len(queue)][1]
             node == queue[Len(queue)][2]
             rest == SubSeq(queue, 1, Len(queue) - 1)
         IN  IF node.symbol = U16Max
             THEN IF depth = lens_max
                  THEN [shrink |-> TRUE, canonical_lens |-> lens]
                  ELSE ExtractLens(rest \o << <<depth + 1, node.child1[1]>>,
                                             <<depth + 1, node.child2[1]>> >>,
                                   lens, lens_max)
             ELSE ExtractLens(rest, [lens EXCEPT ![node.symbol] = depth], lens_max)

\* PaddedLen without the padding.
PaddedLenUnpadded(n) == n

\* The table of one attempt starts all zero, padded to an even size.
PaddedLen(n) == IF n % 2 = 0 THEN n ELSE n + 1

\* One iteration of the 'shrink loop: either it returns a table
\* (shrink = FALSE) or it continues with the next shrink_factor.
Attempt(weights, lens_max, shrink) ==
    LET zero_lens == VecOf(0, PaddedLen(VecLen(weights)))
        node_heap == NodeHeap(weights, shrink)
    IN  IF Cardinality(node_heap) < 2
        THEN [shrink |-> FALSE,
              canonical_lens |->
                  IF Cardinality(node_heap) = 1
                  THEN [zero_lens EXCEPT ![HeapPop(node_heap).symbol] = 1]
                  ELSE zero_lens]
        ELSE ExtractLens(<< <<0, HuffmanTree(node_heap)>> >>, zero_lens, lens_max)

\* -------------------------------------------------------- compute_encodings
\* bits <<= 1 on a u16, repeated n times.
RECURSIVE ShlU16(_, _)
ShlU16(value, n) == IF n <= 0 THEN value ELSE ShlU16((value * 2) % U16, n - 1)

\* The BTreeSet of (bits_len, symbol) over the symbols of nonzero length.
OrderedSymbolWithBitsLens(lens) ==
    {<<lens[i], i % U16>> : i \in {j \in DOMAIN lens : lens[j] # 0}}

\* FirstPair in (symbol, bits_len) order.
FirstPairBySymbol(pairs) ==
    CHOOSE p \in pairs : \A q \in pairs :
        p[2] < q[2] \/ (p[2] = q[2] /\ p[1] <= q[1])

\* The least pair of the set in (bits_len, symbol) order.
FirstPair(pairs) ==
    CHOOSE p \in pairs : \A q \in pairs :
        p[1] < q[1] \/ (p[1] = q[1] /\ p[2] <= q[2])

\* The for_each of lines 133-140 over the pairs still to visit.
RECURSIVE AssignCodes(_, _, _, _)
AssignCodes(pairs, code, current_bits_len, encodings) ==
    IF pairs = {} THEN encodings
    ELSE LET p == FirstPair(pairs)
             padded_code == ShlU16(code, p[1] - current_bits_len)
         IN  AssignCodes(pairs \ {p},
                         (padded_code + 1) % U16,
                         Max(current_bits_len, p[1]),
                         [encodings EXCEPT ![p[2]] = padded_code])

compute_encodings(lens) ==
    AssignCodes(OrderedSymbolWithBitsLens(lens), 0, 1, VecOf(0, VecLen(lens)))

\* -------------------------------------------------------- compute_decodings
\* Blo without the shift to the table width.
BloUnshifted(lens, encodings, lens_max, symbol) == encodings[symbol]

\* Bhi that ends the range right after its first slot.
BhiOneSlot(lens, encodings, lens_max, symbol) ==
    ShlU16(encodings[symbol], lens_max - lens[symbol]) + 1

\* The slot range blo..bhi one symbol fills (u16 arithmetic).
Blo(lens, encodings, lens_max, symbol) ==
    ShlU16(encodings[symbol], lens_max - lens[symbol])

Bhi(lens, encodings, lens_max, symbol) ==
    ShlU16((encodings[symbol] + 1) % U16, lens_max - lens[symbol])

\* The loop over symbol = from .. len-1; a later symbol overwrites an
\* earlier one.  Every range of a table the builder returns lies inside
\* the table, so the unchecked store never leaves it.
RECURSIVE FillDecodings(_, _, _, _, _)
FillDecodings(from, decodings, lens, encodings, lens_max) ==
    IF from >= VecLen(lens) THEN decodings
    ELSE FillDecodings(from + 1,
            IF lens[from] > 0
            THEN [b \in DOMAIN decodings |->
                     IF /\ Blo(lens, encodings, lens_max, from) <= b
                        /\ b < Bhi(lens, encodings, lens_max, from)
                     THEN from % U16 ELSE decodings[b]]
            ELSE decodings,
            lens, encodings, lens_max)

compute_decodings(lens, encodings, lens_max) ==
    FillDecodings(0, VecOf(0, 2 ^ lens_max), lens, encodings, lens_max)

\* ------------------------------------------------------------------ facades
\* compute_canonical_lens of the attempt that returned, then compute_encodings.
HuffmanEncoder(lens) ==
    [canonical_lens |-> lens, encodings |-> compute_encodings(lens)]

\* *canonical_lens.iter().max().unwrap()
LensMax(lens) == CHOOSE m \in {lens[i] : i \in DOMAIN lens} :
                     \A i \in DOMAIN lens : lens[i] <= m

HuffmanDecoder(lens) ==
    [canonical_lens |-> lens,
     canonical_lens_max |-> LensMax(lens),
     decodings |-> compute_decodings(lens, compute_encodings(lens), LensMax(lens))]

\* An object not constructed yet.
NoEncoder == [canonical_lens |-> <<>>, encodings |-> <<>>]
NoDecoder == [canonical_lens |-> <<>>, canonical_lens_max |-> 0, decodings |-> <<>>]

\* --------------------------------------------------------------- bit stream
\* Bits::put: the low len bits of value, most significant first.
BitsOf(len, value) == [k \in 1 .. len |-> (value \div (2 ^ (len - k))) % 2]

RECURSIVE BitsValue(_)
BitsValue(s) ==
    IF s = <<>> THEN 0 ELSE 2 * BitsValue(SubSeq(s, 1, Len(s) - 1)) + s[Len(s)]

\* Bits::peek: the next len bits, not consumed.
Peek(stream, pos, len) == BitsValue(SubSeq(stream, pos + 1, pos + len))

\* ------------------------------------------------------------------ actions
InputWeights(max_symbols, max_weight) ==
    UNION {[0 .. n - 1 -> 0 .. max_weight] : n \in 0 .. max_symbols}

\* Nothing constructed, nothing written.
Fresh ==
    /\ shrink_factor = 0
    /\ encoder = NoEncoder
    /\ decoder = NoDecoder
    /\ bits = <<>>
    /\ rpos = 0
    /\ padded = FALSE
    /\ sent = <<>>
    /\ puts = <<>>
    /\ received = <<>>
    /\ skips = <<>>

\* HuffmanEncoder::from_symbol_weights was called with one of the inputs
\* and enters the 'shrink loop.
InitWith(weight_vectors, lens_maxes) ==
    /\ symbol_weights \in weight_vectors
    /\ canonical_lens_max \in lens_maxes
    /\ pc = "shrink"
    /\ Fresh

Init == InitWith(InputWeights(MaxSymbols, MaxWeight), 0 .. MaxLensMax)

stream_vars == <<bits, rpos, padded, sent, puts, received, skips>>

\* One iteration of the 'shrink loop inside from_symbol_weights.  Either the
\* walk met an internal node at depth canonical_lens_max and the loop goes
\* on with the next shrink_factor (continue 'shrink), or the iteration
\* returns its table, compute_encodings assigns the codes and
\* HuffmanEncoder::from_symbol_weights returns.
ShrinkIteration ==
    /\ pc = "shrink"
    /\ LET attempt == Attempt(symbol_weights, canonical_lens_max, shrink_factor)
       IN  IF attempt.shrink
           THEN /\ shrink_factor < MaxShrink
                /\ shrink_factor' = shrink_factor + 1
                /\ UNCHANGED <<pc, encoder>>
           ELSE /\ encoder' = HuffmanEncoder(attempt.canonical_lens)
                /\ pc' = "encoder"
                /\ UNCHANGED shrink_factor
    /\ UNCHANGED <<symbol_weights, canonical_lens_max, decoder, stream_vars>>

\* HuffmanDecoder::from_canonical_lens(encoder.get_canonical_lens()).
FromCanonicalLens ==
    /\ pc = "encoder"
    /\ VecLen(encoder.canonical_lens) > 0
    /\ decoder' = HuffmanDecoder(encoder.canonical_lens)
    /\ pc' = "decoder"
    /\ UNCHANGED <<symbol_weights, canonical_lens_max, shrink_factor, encoder,
                   stream_vars>>

\* from_canonical_lens on an empty table: max() is None and unwrap panics.
FromCanonicalLensPanic ==
    /\ pc = "encoder"
    /\ VecLen(encoder.canonical_lens) = 0
    /\ pc' = "panic"
    /\ UNCHANGED <<symbol_weights, canonical_lens_max, shrink_factor, encoder,
                   decoder, stream_vars>>

\* HuffmanEncoder::encode_to_bits(symbol, bits), symbol of nonzero length.
EncodeToBits(symbol) ==
    /\ pc = "decoder"
    /\ ~padded
    /\ Len(sent) < MaxStream
    /\ encoder.canonical_lens[symbol] > 0
    /\ bits' = bits \o BitsOf(encoder.canonical_lens[symbol], encoder.encodings[symbol])
    /\ sent' = Append(sent, symbol)
    /\ puts' = Append(puts, encoder.canonical_lens[symbol])
    /\ UNCHANGED <<symbol_weights, canonical_lens_max, shrink_factor, pc,
                   encoder, decoder, rpos, padded, received, skips>>

\* The writer ends the stream with canonical_lens_max bits of padding, of
\* any value, so that the last peek stays inside the stream.
PadTail(tail) ==
    /\ pc = "decoder"
    /\ ~padded
    /\ bits' = bits \o BitsOf(decoder.canonical_lens_max, tail)
    /\ padded' = TRUE
    /\ UNCHANGED <<symbol_weights, canonical_lens_max, shrink_factor, pc,
                   encoder, decoder, rpos, sent, puts, received, skips>>

\* HuffmanDecoder::decode_from_bits(bits): peek, look up, skip.
DecodeFromBits ==
    /\ pc = "decoder"
    /\ padded
    /\ Len(received) < MaxStream
    /\ rpos + decoder.canonical_lens_max <= Len(bits)
    /\ LET symbol == decoder.decodings[Peek(bits, rpos, decoder.canonical_lens_max)]
       IN  /\ rpos' = rpos + decoder.canonical_lens[symbol]
           /\ received' = Append(received, symbol)
           /\ skips' = Append(skips, decoder.canonical_lens[symbol])
    /\ UNCHANGED <<symbol_weights, canonical_lens_max, shrink_factor, pc,
                   encoder, decoder, bits, padded, sent, puts>>

\* The builder and the two constructors.
Next ==
    \/ ShrinkIteration
    \/ FromCanonicalLens
    \/ FromCanonicalLensPanic

Spec == Init /\ [][Next]_vars

\* The builder alone, with the call of from_symbol_weights as a step of its
\* own; the caller keeps the precondition canonical_lens_max >=
\* ceil(log2(active symbol count)).
LiveInit ==
    /\ symbol_weights = <<>>
    /\ canonical_lens_max = 0
    /\ pc = "call"
    /\ Fresh

FromSymbolWeightsCall ==
    /\ pc = "call"
    /\ symbol_weights' \in InputWeights(MaxSymbols, MaxWeight)
    /\ canonical_lens_max' \in 0 .. MaxLensMax
    /\ 2 ^ canonical_lens_max' >= Cardinality(ActiveSymbols(symbol_weights'))
    /\ pc' = "shrink"
    /\ UNCHANGED <<shrink_factor, encoder, decoder, stream_vars>>

LiveNext ==
    \/ FromSymbolWeightsCall
    \/ ShrinkIteration

\* ShrinkIteration can take a step: the iteration returns, or it continues
\* below the cap.
IterationEnabled ==
    /\ pc = "shrink"
    /\ \/ shrink_factor < MaxShrink
       \/ ~Attempt(symbol_weights, canonical_lens_max, shrink_factor).shrink

\* Weak fairness of ShrinkIteration, WF_vars(ShrinkIteration), with its
\* enabling condition written out: the loop, once entered, keeps running.
LoopFairness == <>[]IterationEnabled => []<><<ShrinkIteration>>_vars

LiveSpec == LiveInit /\ [][LiveNext]_vars /\ LoopFairness

\* The codec: construction, then a stream written and read back.
CodecInit ==
    InitWith(InputWeights(CodecMaxSymbols, CodecMaxWeight), 0 .. CodecMaxLensMax)

CodecNext ==
    \/ ShrinkIteration
    \/ FromCanonicalLens
    \/ FromCanonicalLensPanic
    \/ \E symbol \in DOMAIN encoder.canonical_lens : EncodeToBits(symbol)
    \/ \E tail \in 0 .. 2 ^ decoder.canonical_lens_max - 1 : PadTail(tail)
    \/ DecodeFromBits

CodecSpec == CodecInit /\ [][CodecNext]_vars

\* The builder on alphabets of active symbols only, with weights that stay
\* apart after a shrink.
AllActiveWeights(max_symbols, max_weight) ==
    UNION {[0 .. n - 1 -> 1 .. max_weight] : n \in 2 .. max_symbols}

HeavyInit ==
    InitWith(AllActiveWeights(HeavyMaxSymbols, HeavyMaxWeight), 1 .. HeavyMaxLensMax)

HeavyNext ==
    \/ ShrinkIteration
    \/ FromCanonicalLens

HeavySpec == HeavyInit /\ [][HeavyNext]_vars

\* The scenario of weights [5, 1, 1, 1] with canonical_lens_max = 3.
ScenarioWeights == [i \in 0 .. 3 |-> IF i = 0 THEN 5 ELSE 1]

ScenarioInit == InitWith({ScenarioWeights}, {3})

ScenarioNext ==
    \/ ShrinkIteration
    \/ FromCanonicalLens
    \/ \E symbol \in DOMAIN encoder.canonical_lens : EncodeToBits(symbol)
    \/ \E tail \in 0 .. 2 ^ decoder.canonical_lens_max - 1 : PadTail(tail)
    \/ DecodeFromBits

ScenarioSpec == ScenarioInit /\ [][ScenarioNext]_vars

\* ============================================================== properties
\* compute_canonical_lens has returned (and the encoder is built).
Returned == pc \in {"encoder", "decoder", "panic"}

Active == ActiveSymbols(symbol_weights)

\* canonical_lens_max >= ceil(log2(active symbol count)).
Feasible == 2 ^ canonical_lens_max >= Cardinality(Active)

\* C1 (round trip): the k-th decode_from_bits of a stream that starts with
\* the codewords of sent[1], sent[2], ... returns sent[k] and advances the
\* read cursor by exactly the length of sent[k], whatever follows the
\* codeword (the next codeword or the tail padding); so the decoded symbols
\* are the encoded ones, in order.
RoundTrip ==
    \A k \in 1 .. Len(received) :
        k <= Len(sent) =>
            /\ received[k] = sent[k]
            /\ skips[k] = encoder.canonical_lens[sent[k]]
            /\ puts[k] = skips[k]

\* Two different symbols of a table built after a shrink were written back
\* to back, padded, and both read back.
RoundTripWitness ==
    /\ shrink_factor > 0
    /\ Len(sent) = 2
    /\ sent[1] # sent[2]
    /\ Len(received) = 2

\* C2 as stated (length bound): no entry of a returned table exceeds
\* canonical_lens_max, the zero- and one-active-symbol cases included.
LengthBoundAsStated ==
    Returned =>
        \A i \in DOMAIN encoder.canonical_lens :
            encoder.canonical_lens[i] <= canonical_lens_max

\* C2 amended: no entry of a returned table exceeds canonical_lens_max, nor
\* 1 when canonical_lens_max = 0 (the one-active-symbol case returns length
\* 1 whatever the limit).
LengthBound ==
    Returned =>
        \A i \in DOMAIN encoder.canonical_lens :
            encoder.canonical_lens[i] <= Max(canonical_lens_max, 1)

\* A table returned after at least one shrink whose longest code has
\* exactly canonical_lens_max bits.
LengthBoundWitness ==
    /\ Returned
    /\ shrink_factor > 0
    /\ Cardinality(Active) >= 2
    /\ \E i \in DOMAIN encoder.canonical_lens :
           encoder.canonical_lens[i] = canonical_lens_max

\* C3 as stated (scenario): weights [5, 1, 1, 1] with canonical_lens_max = 3
\* give the lengths [1, 3, 3, 2], and encode_to_bits writes that many bits.
ClaimedScenarioLens == [i \in 0 .. 3 |-> IF i = 0 THEN 1 ELSE IF i = 3 THEN 2 ELSE 3]

ScenarioAsStated ==
    Returned =>
        /\ encoder.canonical_lens = ClaimedScenarioLens
        /\ \A k \in 1 .. Len(sent) : puts[k] = ClaimedScenarioLens[sent[k]]

\* C3 amended: weights [5, 1, 1, 1] with canonical_lens_max = 3 give the
\* lengths [1, 2, 3, 3]: encode_to_bits writes 1 bit for symbol 0, 2 bits
\* for symbol 1 and 3 bits for each of symbols 2 and 3.
ScenarioLens == [i \in 0 .. 3 |-> IF i = 0 THEN 1 ELSE IF i = 1 THEN 2 ELSE 3]

Scenario ==
    Returned =>
        /\ encoder.canonical_lens = ScenarioLens
        /\ \A k \in 1 .. Len(sent) : puts[k] = ScenarioLens[sent[k]]

\* Symbols 1 and 3 of the scenario were encoded.
ScenarioWitness ==
    /\ symbol_weights = ScenarioWeights
    /\ sent = <<1, 3>>
    /\ puts = <<2, 3>>

\* C4 (one-symbol table): with exactly one active symbol s, the builder
\* gives s length 1 and every decode_from_bits returns s and advances the
\* cursor by 1 bit, whether the bit read is 0 or 1.
OneSymbolTable ==
    (Returned /\ Cardinality(Active) = 1) =>
        \A s \in Active :
            /\ encoder.canonical_lens[s] = 1
            /\ \A k \in 1 .. Len(received) :
                   received[k] = s /\ skips[k] = 1

\* C5 (termination): with a feasible canonical_lens_max the shrink-retry
\* loop reaches an iteration that returns.
Termination == (pc = "shrink" /\ Feasible) ~> Returned

\* A feasible input whose table was returned after at least one shrink.
TerminationWitness ==
    /\ Feasible
    /\ Returned
    /\ shrink_factor > 0
    /\ Cardinality(Active) >= 2

\* The symbols whose canonical code is the top canonical_lens[s] bits of
\* the slot index.
SlotOwners(slot) ==
    {s \in DOMAIN decoder.canonical_lens :
        /\ decoder.canonical_lens[s] > 0
        /\ encoder.encodings[s] =
               slot \div (2 ^ (decoder.canonical_lens_max - decoder.canonical_lens[s]))}

TableComplete ==
    /\ DOMAIN decoder.decodings = 0 .. 2 ^ decoder.canonical_lens_max - 1
    /\ \A slot \in DOMAIN decoder.decodings :
           SlotOwners(slot) = {decoder.decodings[slot]}

\* C6 as stated (decode table completeness): with at least one active
\* symbol the table has 2^M slots and each slot holds the one symbol whose
\* code is a prefix of the slot index.
DecodeTableCompleteAsStated ==
    (pc = "decoder" /\ Cardinality(Active) >= 1) => TableComplete

\* C6 amended: the same for tables of at least two active symbols (the
\* second slot of a one-symbol table belongs to no code).
DecodeTableComplete ==
    (pc = "decoder" /\ Cardinality(Active) >= 2) => TableComplete

\* A decoder built after a shrink over codes of different lengths.
DecodeTableCompleteWitness ==
    /\ pc = "decoder"
    /\ shrink_factor > 0
    /\ Cardinality(Active) >= 3
    /\ \E s \in Active : decoder.canonical_lens[s] < decoder.canonical_lens_max

\* a comes before b in ascending (length, symbol id) order.
Precedes(a, b) ==
    \/ encoder.canonical_lens[a] < encoder.canonical_lens[b]
    \/ encoder.canonical_lens[a] = encoder.canonical_lens[b] /\ a < b

\* b follows a directly in that order.
Adjacent(a, b) ==
    /\ Precedes(a, b)
    /\ ~ \E c \in Active : Precedes(a, c) /\ Precedes(c, b)

\* The code of a is the top canonical_lens[a] bits of the code of b.
IsPrefix(a, b) ==
    /\ encoder.canonical_lens[a] <= encoder.canonical_lens[b]
    /\ encoder.encodings[b]
         \div (2 ^ (encoder.canonical_lens[b] - encoder.canonical_lens[a]))
       = encoder.encodings[a]

\* C7 (canonical ordering): along ascending (length, symbol id) order the
\* first active symbol has code 0 and each next one has code
\* (previous code + 1) << (its length - previous length); the codes
\* increase strictly, each fits in its length, and none is a prefix of
\* another.
CanonicalOrdering ==
    Returned =>
        /\ \A a \in Active :
               (~ \E c \in Active : Precedes(c, a)) => encoder.encodings[a] = 0
        /\ \A a, b \in Active :
               Adjacent(a, b) =>
                   encoder.encodings[b] =
                       (encoder.encodings[a] + 1)
                         * 2 ^ (encoder.canonical_lens[b] - encoder.canonical_lens[a])
        /\ \A a, b \in Active :
               Precedes(a, b) => encoder.encodings[a] < encoder.encodings[b]
        /\ \A a \in Active :
               encoder.encodings[a] < 2 ^ encoder.canonical_lens[a]
        /\ \A a, b \in Active : a # b => ~IsPrefix(a, b)

\* A returned table with codes of three different lengths.
CanonicalOrderingWitness ==
    /\ Returned
    /\ \E a, b, c \in Active :
           /\ encoder.canonical_lens[a] < encoder.canonical_lens[b]
           /\ encoder.canonical_lens[b] < encoder.canonical_lens[c]
           /\ encoder.encodings[c] > encoder.encodings[b] + 1

RECURSIVE KraftSum(_, _, _)
KraftSum(symbols, lens, width) ==
    IF symbols = {} THEN 0
    ELSE LET s == CHOOSE x \in symbols : TRUE
         IN  2 ^ (width - lens[s]) + KraftSum(symbols \ {s}, lens, width)

LargestLen == CHOOSE m \in 0 .. 255 :
    /\ \A i \in DOMAIN encoder.canonical_lens : encoder.canonical_lens[i] <= m
    /\ \E i \in DOMAIN encoder.canonical_lens : encoder.canonical_lens[i] = m

\* C8 (Kraft equality): with at least two active symbols, the sum over the
\* active symbols of 2^(M - length) is 2^M, M the largest returned length.
KraftEquality ==
    (Returned /\ Cardinality(Active) >= 2) =>
        KraftSum(Active, encoder.canonical_lens, LargestLen) = 2 ^ LargestLen

\* A table returned after a shrink, with codes of different lengths.
KraftEqualityWitness ==
    /\ Returned
    /\ shrink_factor > 0
    /\ \E a, b \in Active : encoder.canonical_lens[a] < encoder.canonical_lens[b]

\* C9 (output shape): the table has n entries for even n and n + 1 for odd
\* n, and an entry is nonzero exactly when its index is a symbol of nonzero
\* weight.
OutputShape ==
    Returned =>
        LET n == VecLen(symbol_weights)
        IN  /\ DOMAIN encoder.canonical_lens = 0 .. (n + (n % 2)) - 1
            /\ \A i \in DOMAIN encoder.canonical_lens :
                   encoder.canonical_lens[i] # 0 <=> i \in Active

\* A table of an odd alphabet with an inactive symbol, returned after a
\* shrink.
OutputShapeWitness ==
    /\ Returned
    /\ shrink_factor > 0
    /\ VecLen(symbol_weights) % 2 = 1
    /\ VecLen(encoder.canonical_lens) = VecLen(symbol_weights) + 1
    /\ Active # DOMAIN symbol_weights

\* C10 as stated (weight monotonicity): with a feasible canonical_lens_max
\* a heavier active symbol never has a longer code than a lighter one.
WeightMonotoneAsStated ==
    (Returned /\ Feasible) =>
        \A a, b \in Active :
            symbol_weights[a] > symbol_weights[b] =>
                encoder.canonical_lens[a] <= encoder.canonical_lens[b]

\* C10 amended: a symbol whose shrunken weight max(w >> s, 1), s the
\* shrink exponent the loop returned on, is larger never has the longer
\* code.
WeightMonotone ==
    (Returned /\ Feasible) =>
        \A a, b \in Active :
            ShrunkWeight(symbol_weights[a], shrink_factor)
              > ShrunkWeight(symbol_weights[b], shrink_factor) =>
                encoder.canonical_lens[a] <= encoder.canonical_lens[b]

\* A table returned after a shrink that kept two weights apart and gave
\* the heavier symbol the shorter code.
WeightMonotoneWitness ==
    /\ Returned
    /\ Feasible
    /\ shrink_factor > 0
    /\ \E a, b \in Active :
           /\ ShrunkWeight(symbol_weights[a], shrink_factor)
                > ShrunkWeight(symbol_weights[b], shrink_factor)
           /\ encoder.canonical_lens[a] < encoder.canonical_lens[b]

====
